---- MODULE Spec2Model ----
(***************************************************************************)
(* A model of the lightweight Matter bridge of lumimqtt                    *)
(* (src/lumimqtt/matter_bridge.py): the UDP message codec and the          *)
(* commissioning stub of MatterUDPProtocol, and the endpoint registry,     *)
(* the command dispatcher and the supervisor of LumiMatter (start, close   *)
(* and the asyncio tasks they spawn).                                      *)
(*                                                                         *)
(* close() is taken to be called once start() has ended or when it never   *)
(* ran, and again once the call before it has ended; start() is taken to   *)
(* be called once.  The zeroconf library is taken to accept a second       *)
(* async_unregister_service and async_close on an instance already closed. *)
(*                                                                         *)
(* One action is one synchronous segment of a coroutine or callback, from  *)
(* one suspension point (await) to the next: the asyncio event loop runs   *)
(* such a segment without interleaving anything else.                      *)
(***************************************************************************)
EXTENDS Integers, Sequences, FiniteSets, TLC

(***************************************************************************)
(* Bounds of the model.                                                    *)
(***************************************************************************)
\* Datagrams the network delivers during one run.
MaxDatagrams == 2
\* Endpoints the registry holds, the root endpoint included.
MaxEndpoints == 3
\* Length of the payloads the codec is applied to.
MaxPayload == 2
\* Calls of close() during one run.
MaxCloses == 2

\* Calls of _display_pairing_info on a bridge that is not started.
MaxDisplays == 2

(***************************************************************************)
(* Python values.  None is the string "None".  An int that may exceed      *)
(* 2^31 (a message counter) is kept as two 16-bit limbs, value             *)
(* lo + 65536 * hi; hi is 65536 for the value 2^32.                         *)
(***************************************************************************)
None == "None"

Byte == 0..255

\* struct.unpack('<H', b)[0]
UnpackH(b) == b[1] + 256 * b[2]

\* struct.unpack('<I', b)[0]
UnpackI(b) == [lo |-> b[1] + 256 * b[2], hi |-> b[3] + 256 * b[4]]

\* n + 1 on an int held as limbs
IntAdd1(n) ==
    IF n.lo = 65535 THEN [lo |-> 0, hi |-> n.hi + 1]
                    ELSE [lo |-> n.lo + 1, hi |-> n.hi]

\* Whether struct.pack accepts the value for its format.
FitsB(n) == n \in 0..255
FitsH(n) == n \in 0..65535
FitsI(n) == n.lo \in 0..65535 /\ n.hi \in 0..65535

\* struct.pack('>H', n): the big-endian packing
PackH_BigEndian(n) == <<n \div 256, n % 256>>

\* struct.pack('<B', n), struct.pack('<H', n), struct.pack('<I', n)
PackB(n) == <<n>>
PackH(n) == <<n % 256, n \div 256>>
PackI(n) == <<n.lo % 256, n.lo \div 256, n.hi % 256, n.hi \div 256>>

\* data[a:b] of a bytes object, 0-based and end-exclusive as in Python
Slice(data, a, b) ==
    LET hi == IF b < Len(data) THEN b ELSE Len(data)
    IN  IF a >= hi THEN <<>> ELSE SubSeq(data, a + 1, hi)

(***************************************************************************)
(* MatterUDPProtocol: codec and commissioning stub.  A call that may raise *)
(* returns [exc |-> the exception or None, val |-> the value].             *)
(***************************************************************************)
NoMessage ==
    [flags |-> 0, session_id |-> 0, security_flags |-> 0,
     message_counter |-> [lo |-> 0, hi |-> 0], payload |-> <<>>]

\* A call's outcome: exc is the exception raised or None; none says the value
\* is Python's None; val is the bytes value otherwise.
Returns(v) == [exc |-> None, none |-> FALSE, val |-> v]
ReturnsNone == [exc |-> None, none |-> TRUE, val |-> <<>>]
Raises(e) == [exc |-> e, none |-> FALSE, val |-> <<>>]

_parse_matter_message(data) ==
    IF Len(data) < 8
    THEN [exc |-> "ValueError", msg |-> NoMessage]
    ELSE [exc |-> None,
          msg |-> [flags           |-> data[1],
                   session_id      |-> UnpackH(Slice(data, 1, 3)),
                   security_flags  |-> data[4],
                   message_counter |-> UnpackI(Slice(data, 4, 8)),
                   payload         |-> Slice(data, 8, Len(data))]]

\* The packing both builders share: struct.pack('<BHB', ...) +
\* struct.pack('<I', ...) + payload; struct.error when a field does not fit.
PackMessage(flags, session_id, security_flags, message_counter, payload) ==
    IF FitsB(flags) /\ FitsH(session_id) /\ FitsB(security_flags)
       /\ FitsI(message_counter)
    THEN Returns(PackB(flags) \o PackH(session_id) \o PackB(security_flags)
                 \o PackI(message_counter) \o payload)
    ELSE Raises("struct.error")

PasePayload == <<21, 48, 1, 0>>     \* b'\x15\x30\x01\x00'

_build_pase_response(request) ==
    PackMessage(0, 0, 0, IntAdd1(request.message_counter), PasePayload)

_build_status_response(request, status) ==
    PackMessage(0, request.session_id, 0,
                IntAdd1(request.message_counter), PackB(status))

_handle_commissioning_message(message) ==
    IF Len(message.payload) < 4
    THEN _build_status_response(message, 1)
    ELSE _build_pase_response(message)

\* A handler that answers operational messages too, with the failure status.
_handle_matter_message_answering(message) ==
    IF message.session_id = 0
    THEN _handle_commissioning_message(message)
    ELSE _build_status_response(message, 1)

\* Returns bytes, or None for an operational message.
_handle_matter_message(message) ==
    IF message.session_id = 0
    THEN _handle_commissioning_message(message)
    ELSE ReturnsNone

(***************************************************************************)
(* State.                                                                  *)
(***************************************************************************)
VARIABLES
    \* LumiMatter's fields
    endpoints,        \* list of MatterEndpoint
    lights,           \* list of Light devices
    buttons,          \* list of Button devices
    _commissioned,    \* bool
    _fabric_id,       \* None or an int
    \* the Light devices
    light_state,      \* each light's state: power, brightness and color
    last_set,         \* the latest call of Light.set: its arguments
    \* the latest call of handle_light_command: its arguments; tick
    \* alternates between 0 and 1 from one call to the next
    dispatched,
    _tasks,           \* list of the supervisor's tasks, by name
    _udp_transport,   \* None, or the transport: "open" or "closed"
    _udp_protocol,    \* None or "set"
    zeroconf,         \* None, or the AsyncZeroconf: "open" or "closed"
    service_info,     \* <<>> for None, or <<the TXT records>>
    \* the outside world
    mdns_registered,  \* the announcement is registered with the mDNS service
    pairing_shown,    \* times the pairing information was printed
    printed,          \* the pairing information last printed on the console
    inbox,            \* datagrams the socket holds, oldest first
    arrived,          \* every datagram that reached the socket, in order
    received,         \* every datagram passed to datagram_received, in order
    sent,             \* every datagram passed to transport.sendto, in order,
                      \* each with the position in `received` of its cause
    \* the asyncio tasks and the coroutines in progress
    task,             \* the supervisor's three tasks
    btask,            \* the relay's list `tasks`: one task per button
    relay,            \* locals and position of _handle_buttons
    start,            \* position and outcome of start()
    close,            \* position and outcome of close()
    \* the constructor's arguments as the bridge keeps them
    vendor_id, product_id, discriminator,
    passcode,         \* [lo, hi]: the integer lo + 65536 * hi
    \* the codec applied to given fields (SpecCodec)
    codec

registryVars == <<endpoints, lights, buttons>>
sessionVars == <<_commissioned, _fabric_id>>
deviceVars == <<light_state, last_set, dispatched>>
dataVars == <<registryVars, sessionVars, deviceVars>>
netVars == <<inbox, arrived, received, sent>>
serviceVars == <<_udp_transport, _udp_protocol, zeroconf, service_info,
                 mdns_registered, pairing_shown, printed>>
taskVars == <<_tasks, task, btask, relay>>
configVars == <<vendor_id, product_id, discriminator, passcode>>
vars == <<dataVars, netVars, serviceVars, taskVars, start, close, codec,
          configVars>>

(***************************************************************************)
(* Devices.  A device is a name; its variant is decided by the set it is   *)
(* in.  "other" is a Device that is neither a Light nor a Button.          *)
(***************************************************************************)
LightDevs == {"light1", "light2"}
ButtonDevs == {"button1", "button2"}
Devices == LightDevs \cup ButtonDevs \cup {"other"}

\* MatterDeviceType and MatterCluster
ROOT_NODE == 22                \* 0x0016
EXTENDED_COLOR_LIGHT == 269    \* 0x010D
GENERIC_SWITCH == 15           \* 0x000F
DESCRIPTOR == 29               \* 0x001D
IDENTIFY == 3                  \* 0x0003
ON_OFF == 6                    \* 0x0006
LEVEL_CONTROL == 8             \* 0x0008
COLOR_CONTROL == 768           \* 0x0300
SWITCH == 59                   \* 0x003B

MatterEndpoint(id, type, clusters, device) ==
    [endpoint_id |-> id, device_type |-> type, clusters |-> clusters,
     device |-> device]

\* The endpoint list _setup_root_endpoint leaves on a new bridge.
_setup_root_endpoint ==
    <<MatterEndpoint(0, ROOT_NODE, <<DESCRIPTOR, IDENTIFY>>, None)>>

(***************************************************************************)
(* asyncio tasks.  st is "none" before the task is created, "pending"      *)
(* while it runs or waits, then "ok", "exc" or "cancelled"; cancel says a  *)
(* cancellation was requested and not yet delivered; err names the         *)
(* exception a failed task holds.                                          *)
(***************************************************************************)
TaskNames == {"buttons", "lights", "commissioning"}
\* An exception is named by its kind and, for a button's, the button task.
NoErr == [kind |-> None, of |-> 0]
Err(kind, i) == [kind |-> kind, of |-> i]
NoTask == [st |-> "none", cancel |-> FALSE, err |-> NoErr]
NewTask == [st |-> "pending", cancel |-> FALSE, err |-> NoErr]
Done(t) == t.st \in {"ok", "exc", "cancelled"}
Pending(t) == t.st = "pending"
\* task.cancel(): no effect on a task that is done
Cancel(t) == IF Pending(t) THEN [t EXCEPT !.cancel = TRUE] ELSE t
Finish(t, st, err) == [st |-> st, cancel |-> FALSE, err |-> err]

RelayIdle == [pc |-> "init", order |-> <<>>, idx |-> 0, finished |-> {}]
Idle == [pc |-> "idle", out |-> None, err |-> NoErr, idx |-> 0]
\* close() was not called yet; calls counts the calls of close().
NotClosing == [pc |-> "idle", out |-> None, err |-> NoErr, idx |-> 0,
               calls |-> 0]

\* The codec at rest.
NoCodec == [pc |-> "idle", flags |-> 0, session_id |-> 0,
            security_flags |-> 0, message_counter |-> [lo |-> 0, hi |-> 0],
            payload |-> <<>>, built |-> <<>>, parsed |-> NoMessage]

\* A Light as the platform supplies it: off, dark and black.
LightOff == [state |-> "OFF", brightness |-> 0, color |-> <<0, 0, 0>>]

\* No call of Light.set yet.
NoSet == [device |-> None, key |-> None, state |-> None, level |-> 0,
          color |-> <<>>, transition |-> 0]

\* The empty dictionary of arguments; has is the set of a dictionary's keys.
NoArgs == [has |-> {}, level |-> 0, transition_time |-> 0, hue |-> 0,
           saturation |-> 0]

\* No call of handle_light_command yet.
NoCall == [endpoint_id |-> 0, cluster_id |-> 0, command_id |-> 0,
           args |-> NoArgs, tick |-> 0]

\* LumiMatter.__init__
\* Nothing printed yet.
NoPrint == [qr_payload |-> <<>>, manual_code |-> <<>>]

\* The defaults of the constructor's arguments.
MATTER_VENDOR_ID == 65521
MATTER_PRODUCT_ID == 32769
MATTER_DISCRIMINATOR == 3840
DefaultPasscode == [lo |-> 16933, hi |-> 308]

\* __init__ keeps its four arguments as they are given.
ConfigIs(vid, pid, disc, code) ==
    /\ vendor_id = vid
    /\ product_id = pid
    /\ discriminator = disc
    /\ passcode = code

DefaultConfig ==
    ConfigIs(MATTER_VENDOR_ID, MATTER_PRODUCT_ID, MATTER_DISCRIMINATOR,
             DefaultPasscode)

InitBridge ==
    /\ endpoints = _setup_root_endpoint
    /\ lights = <<>>
    /\ buttons = <<>>
    /\ _commissioned = FALSE
    /\ _fabric_id = None
    /\ light_state = [d \in LightDevs |-> LightOff]
    /\ last_set = NoSet
    /\ dispatched = NoCall
    /\ _tasks = <<>>
    /\ _udp_transport = None
    /\ _udp_protocol = None
    /\ zeroconf = None
    /\ service_info = <<>>
    /\ mdns_registered = FALSE
    /\ pairing_shown = 0
    /\ printed = NoPrint
    /\ inbox = <<>>
    /\ arrived = <<>>
    /\ received = <<>>
    /\ sent = <<>>
    /\ task = [n \in TaskNames |-> NoTask]
    /\ btask = <<>>
    /\ relay = RelayIdle
    /\ start = Idle
    /\ close = NotClosing

Init == InitBridge /\ DefaultConfig /\ codec = NoCodec

(***************************************************************************)
(* LumiMatter.register                                                     *)
(***************************************************************************)
\* A register that numbers the endpoints it adds from the list's new length.
register_numbering_from_one(device) ==
    /\ Len(endpoints) < MaxEndpoints
    /\ IF device = None
       THEN UNCHANGED registryVars
       ELSE LET endpoint_id == Len(endpoints) + 1 IN
            IF device \in LightDevs
            THEN /\ lights' = Append(lights, device)
                 /\ endpoints' = Append(endpoints,
                        MatterEndpoint(endpoint_id, EXTENDED_COLOR_LIGHT,
                            <<DESCRIPTOR, IDENTIFY, ON_OFF, LEVEL_CONTROL,
                              COLOR_CONTROL>>, device))
                 /\ UNCHANGED buttons
            ELSE IF device \in ButtonDevs
            THEN /\ buttons' = Append(buttons, device)
                 /\ endpoints' = Append(endpoints,
                        MatterEndpoint(endpoint_id, GENERIC_SWITCH,
                            <<DESCRIPTOR, IDENTIFY, SWITCH>>, device))
                 /\ UNCHANGED lights
            ELSE UNCHANGED registryVars
    /\ UNCHANGED <<sessionVars, deviceVars, codec, configVars, netVars, serviceVars,
                   taskVars, start, close>>

\* A register that takes every device that is not a Light for a Button.
register_any_device(device) ==
    /\ Len(endpoints) < MaxEndpoints
    /\ IF device = None
       THEN UNCHANGED registryVars
       ELSE LET endpoint_id == Len(endpoints) IN
            IF device \in LightDevs
            THEN /\ lights' = Append(lights, device)
                 /\ endpoints' = Append(endpoints,
                        MatterEndpoint(endpoint_id, EXTENDED_COLOR_LIGHT,
                            <<DESCRIPTOR, IDENTIFY, ON_OFF, LEVEL_CONTROL,
                              COLOR_CONTROL>>, device))
                 /\ UNCHANGED buttons
            ELSE /\ buttons' = Append(buttons, device)
                 /\ endpoints' = Append(endpoints,
                        MatterEndpoint(endpoint_id, GENERIC_SWITCH,
                            <<DESCRIPTOR, IDENTIFY, SWITCH>>, device))
                 /\ UNCHANGED lights
    /\ UNCHANGED <<sessionVars, deviceVars, codec, configVars, netVars, serviceVars,
                   taskVars, start, close>>

register(device) ==
    /\ Len(endpoints) < MaxEndpoints
    /\ IF device = None
       THEN UNCHANGED registryVars
       ELSE LET endpoint_id == Len(endpoints) IN
            IF device \in LightDevs
            THEN /\ lights' = Append(lights, device)
                 /\ endpoints' = Append(endpoints,
                        MatterEndpoint(endpoint_id, EXTENDED_COLOR_LIGHT,
                            <<DESCRIPTOR, IDENTIFY, ON_OFF, LEVEL_CONTROL,
                              COLOR_CONTROL>>, device))
                 /\ UNCHANGED buttons
            ELSE IF device \in ButtonDevs
            THEN /\ buttons' = Append(buttons, device)
                 /\ endpoints' = Append(endpoints,
                        MatterEndpoint(endpoint_id, GENERIC_SWITCH,
                            <<DESCRIPTOR, IDENTIFY, SWITCH>>, device))
                 /\ UNCHANGED lights
            ELSE UNCHANGED registryVars
    /\ UNCHANGED <<sessionVars, deviceVars, codec, configVars, netVars, serviceVars,
                   taskVars, start, close>>

\* register is called with one of the given devices.
RegisterOf(devices) == \E device \in devices : register(device)

Register == RegisterOf(Devices \cup {None})

(***************************************************************************)
(* LumiMatter.handle_light_command and the Light it drives.  The Light is  *)
(* the platform's: set(value, transition) is taken to apply the keys of    *)
(* value to the light's state before anything else runs.                   *)
(***************************************************************************)
\* _hsv_to_rgb(hue / 254 * 360, saturation / 254 * 100, 100): the conversion
\* of colorsys.hsv_to_rgb on h = hue / 254, s = saturation / 254, v = 1, each
\* channel scaled by 255 and truncated, for hue and saturation in 0..254.
\* A conversion that rounds each channel to the nearest integer.
_hsv_to_rgb_rounding(hue, saturation) ==
    IF saturation = 0 THEN <<255, 255, 255>>
    ELSE LET i  == (3 * hue) \div 127
             fn == 3 * hue - 127 * i
             D  == 254 * 127
             p  == (2 * 255 * (254 - saturation) * 127 + D) \div (2 * D)
             q  == (2 * 255 * (D - saturation * fn) + D) \div (2 * D)
             t  == (2 * 255 * (D - saturation * (127 - fn)) + D)
                     \div (2 * D)
             v  == 255
         IN  CASE i % 6 = 0 -> <<v, t, p>>
               [] i % 6 = 1 -> <<q, v, p>>
               [] i % 6 = 2 -> <<p, v, t>>
               [] i % 6 = 3 -> <<p, q, v>>
               [] i % 6 = 4 -> <<t, p, v>>
               [] OTHER     -> <<v, p, q>>

_hsv_to_rgb(hue, saturation) ==
    IF saturation = 0 THEN <<255, 255, 255>>
    ELSE LET i  == (3 * hue) \div 127            \* int(h * 6.0)
             fn == 3 * hue - 127 * i             \* f = fn / 127
             D  == 254 * 127
             p  == (255 * (254 - saturation) * 127) \div D
             q  == (255 * (D - saturation * fn)) \div D
             t  == (255 * (D - saturation * (127 - fn))) \div D
             v  == 255
         IN  CASE i % 6 = 0 -> <<v, t, p>>
               [] i % 6 = 1 -> <<q, v, p>>
               [] i % 6 = 2 -> <<p, v, t>>
               [] i % 6 = 3 -> <<p, q, v>>
               [] i % 6 = 4 -> <<t, p, v>>
               [] OTHER     -> <<v, p, q>>

\* args.get(key, default); args.has is the set of the dictionary's keys.
Get(args, key, default) == IF key \in args.has THEN args[key] ELSE default

\* One call light.set(value, transition): the key of value, its value under
\* the field of its type, and the transition in milliseconds.
SetStateInverted(device, state) ==
    [device |-> device, key |-> "state",
     state |-> IF state = "ON" THEN "OFF" ELSE "ON", level |-> 0,
     color |-> <<>>, transition |-> 0]
SetState(device, state) ==
    [device |-> device, key |-> "state", state |-> state, level |-> 0,
     color |-> <<>>, transition |-> 0]
SetBrightnessClamped(device, level, transition_time) ==
    [device |-> device, key |-> "brightness", state |-> None,
     level |-> IF level > 254 THEN 254 ELSE level,
     color |-> <<>>, transition |-> transition_time * 100]
SetBrightness(device, level, transition_time) ==
    [device |-> device, key |-> "brightness", state |-> None, level |-> level,
     color |-> <<>>, transition |-> transition_time * 100]
SetColor(device, rgb) ==
    [device |-> device, key |-> "color", state |-> None, level |-> 0,
     color |-> rgb, transition |-> 0]

\* Light.set as the device applies it.
LightSet(st, op) ==
    CASE op.key = "state"      -> [st EXCEPT !.state = op.state]
      [] op.key = "brightness" -> [st EXCEPT !.brightness = op.level]
      [] op.key = "color"      -> [st EXCEPT !.color = op.color]

\* A dispatcher that looks at the cluster alone: every command of the OnOff
\* cluster but Off and On toggles, every command of LevelControl moves to
\* the level and every command of ColorControl to the hue and saturation.
ClusterOpsOfAnyCommand(light, cluster_id, command_id, args) ==
    IF cluster_id = ON_OFF
    THEN CASE command_id = 0 -> <<SetState(light, "OFF")>>
           [] command_id = 1 -> <<SetState(light, "ON")>>
           [] OTHER ->
                <<SetState(light,
                           IF light_state[light].state = "ON"
                           THEN "OFF" ELSE "ON")>>
    ELSE IF cluster_id = LEVEL_CONTROL
    THEN <<SetBrightness(light, Get(args, "level", 255),
                         Get(args, "transition_time", 0))>>
    ELSE IF cluster_id = COLOR_CONTROL
    THEN <<SetColor(light,
                    _hsv_to_rgb(Get(args, "hue", 0),
                                Get(args, "saturation", 0)))>>
    ELSE <<>>

\* The device operations a command requests of the light it addresses:
\* none or one.
ClusterOps(light, cluster_id, command_id, args) ==
    IF cluster_id = ON_OFF
    THEN CASE command_id = 0 -> <<SetState(light, "OFF")>>
           [] command_id = 1 -> <<SetState(light, "ON")>>
           [] command_id = 2 ->
                <<SetState(light,
                           IF light_state[light].state = "ON"
                           THEN "OFF" ELSE "ON")>>
           [] OTHER -> <<>>
    ELSE IF cluster_id = LEVEL_CONTROL
    THEN IF command_id = 0
         THEN <<SetBrightness(light, Get(args, "level", 255),
                              Get(args, "transition_time", 0))>>
         ELSE <<>>
    ELSE IF cluster_id = COLOR_CONTROL
    THEN IF command_id = 71                     \* 0x47
         THEN <<SetColor(light,
                         _hsv_to_rgb(Get(args, "hue", 0),
                                     Get(args, "saturation", 0)))>>
         ELSE <<>>
    ELSE <<>>

\* A dispatcher that ignores the endpoint ID and drives the first light.
LightOpsOnFirstLight(endpoint_id, cluster_id, command_id, args) ==
    IF lights = <<>> THEN <<>>
    ELSE ClusterOps(lights[1], cluster_id, command_id, args)

\* The device operations one command requests: none when no endpoint has
\* the ID or the first that has it holds no Light.
LightOps(endpoint_id, cluster_id, command_id, args) ==
    LET found == {k \in DOMAIN endpoints :
                    endpoints[k].endpoint_id = endpoint_id}
        endpoint == IF found = {} THEN None
                    ELSE endpoints[CHOOSE k \in found :
                                     \A j \in found : k <= j]
    IN  IF found = {} THEN <<>>
        ELSE IF endpoint.device \notin LightDevs THEN <<>>
        ELSE ClusterOps(endpoint.device, cluster_id, command_id, args)

\* A handle_light_command that drops every endpoint but the root.
handle_light_command_forgetful(endpoint_id, cluster_id, command_id, args) ==
    LET ops == LightOps(endpoint_id, cluster_id, command_id, args) IN
    /\ dispatched' = [endpoint_id |-> endpoint_id, cluster_id |-> cluster_id,
                      command_id |-> command_id, args |-> args,
                      tick |-> 1 - dispatched.tick]
    /\ last_set' = IF ops = <<>> THEN last_set ELSE ops[1]
    /\ light_state' =
         IF ops = <<>> THEN light_state
         ELSE [light_state EXCEPT ![ops[1].device] = LightSet(@, ops[1])]
    /\ endpoints' = SubSeq(endpoints, 1, 1)
    /\ UNCHANGED <<lights, buttons, sessionVars, codec, configVars, netVars, serviceVars,
                   taskVars, start, close>>

handle_light_command(endpoint_id, cluster_id, command_id, args) ==
    LET ops == LightOps(endpoint_id, cluster_id, command_id, args) IN
    /\ dispatched' = [endpoint_id |-> endpoint_id, cluster_id |-> cluster_id,
                      command_id |-> command_id, args |-> args,
                      tick |-> 1 - dispatched.tick]
    /\ last_set' = IF ops = <<>> THEN last_set ELSE ops[1]
    /\ light_state' =
         IF ops = <<>> THEN light_state
         ELSE [light_state EXCEPT ![ops[1].device] = LightSet(@, ops[1])]
    /\ UNCHANGED <<registryVars, sessionVars, codec, configVars, netVars, serviceVars,
                   taskVars, start, close>>

\* A dictionary of the given keys.
LevelArgs(level, transition_time) ==
    [NoArgs EXCEPT !.has = {"level", "transition_time"}, !.level = level,
                   !.transition_time = transition_time]
ColorArgs(hue, saturation) ==
    [NoArgs EXCEPT !.has = {"hue", "saturation"}, !.hue = hue,
                   !.saturation = saturation]

\* The commands a caller may dispatch, on every endpoint ID up to one past
\* the registry's bound: the light clusters and one other, with known and
\* unknown command numbers and a few argument dictionaries.
ClusterCommands ==
    [cluster_id : {ON_OFF}, command_id : {0, 1, 2, 3}, args : {NoArgs}]
    \cup [cluster_id : {LEVEL_CONTROL}, command_id : {0, 1},
          args : {NoArgs, LevelArgs(300, 25),
                  [LevelArgs(0, 0) EXCEPT !.has = {"level"}]}]
    \cup [cluster_id : {COLOR_CONTROL}, command_id : {0, 71},
          args : {NoArgs, ColorArgs(0, 254), ColorArgs(127, 254),
                  ColorArgs(200, 100)}]
    \cup [cluster_id : {IDENTIFY}, command_id : {0}, args : {NoArgs}]

Commands ==
    {[endpoint_id |-> e, cluster_id |-> c.cluster_id,
      command_id |-> c.command_id, args |-> c.args] :
        e \in 0..MaxEndpoints, c \in ClusterCommands}

\* Toggle alone, on every endpoint ID.
ToggleCommands ==
    {c \in Commands : c.cluster_id = ON_OFF /\ c.command_id = 2
                                           /\ c.args = NoArgs}

\* Toggle on the first endpoint a registration adds.
ToggleFirst == {c \in ToggleCommands : c.endpoint_id = 1}

Dispatch(cmds) ==
    \E c \in cmds :
      handle_light_command(c.endpoint_id, c.cluster_id, c.command_id, c.args)

(***************************************************************************)
(* The pairing information.  A string is the sequence of its characters.   *)
(* An integer too wide for one machine word is the sequence of its bits,   *)
(* least significant first, or the pair of 16-bit and upper limbs          *)
(* [lo, hi].                                                               *)
(***************************************************************************)
\* n & (2^w - 1) of a natural number n, as w bits
Bits(n, w) == [i \in 1..w |-> (n \div 2^(i - 1)) % 2]

\* passcode & 0x7FFFFFF
PasscodeBits == Bits(passcode.lo, 16) \o Bits(passcode.hi, 11)

version == 0
custom_flow == 0
discovery_caps == 4

\* `value` of _generate_qr_code with the fields of the two vendors exchanged
QrValueFieldsExchanged ==
    PasscodeBits \o Bits(discriminator, 12) \o Bits(discovery_caps, 8)
                 \o Bits(custom_flow, 2) \o Bits(vendor_id, 16)
                 \o Bits(product_id, 16) \o Bits(version, 3)

\* `value` of _generate_qr_code: the fields or-ed at their shifts 0, 27, 39,
\* 47, 49, 65 and 81
QrValue ==
    PasscodeBits \o Bits(discriminator, 12) \o Bits(discovery_caps, 8)
                 \o Bits(custom_flow, 2) \o Bits(product_id, 16)
                 \o Bits(vendor_id, 16) \o Bits(version, 3)

base38_chars ==
    <<"0", "1", "2", "3", "4", "5", "6", "7", "8", "9", "A", "B", "C", "D",
      "E", "F", "G", "H", "I", "J", "K", "L", "M", "N", "O", "P", "Q", "R",
      "S", "T", "U", "V", "W", "X", "Y", "Z", "-", ".">>

\* The number a sequence of bits stands for
RECURSIVE BitsValue(_)
BitsValue(bits) ==
    IF bits = <<>> THEN 0 ELSE bits[1] + 2 * BitsValue(Tail(bits))

\* An integer of 84 bits as seven limbs of 12 bits, lowest first
Limbs(bits) == [k \in 1..7 |-> BitsValue(SubSeq(bits, 12 * k - 11, 12 * k))]

\* temp_value % 38 and temp_value // 38 by long division from the top limb:
\* limbs i+1.. are divided already, with remainder r and quotient limbs q
RECURSIVE DivMod38(_, _, _, _)
DivMod38(limbs, i, r, q) ==
    IF i = 0 THEN [q |-> q, r |-> r]
    ELSE LET t == 4096 * r + limbs[i]
         IN  DivMod38(limbs, i - 1, t % 38, <<t \div 38>> \o q)

\* while temp_value > 0: encoded = base38_chars[temp_value % 38] + encoded
RECURSIVE Base38(_, _)
Base38(temp_value, encoded) ==
    IF \A i \in 1..Len(temp_value) : temp_value[i] = 0 THEN encoded
    ELSE LET d == DivMod38(temp_value, Len(temp_value), 0, <<>>)
         IN  Base38(d.q, <<base38_chars[d.r + 1]>> \o encoded)

\* while len(s) < width: s = ch + s; also the zero padding of a format
RECURSIVE PadLeft(_, _, _)
PadLeft(s, ch, width) ==
    IF Len(s) < width THEN PadLeft(<<ch>> \o s, ch, width) ELSE s

_generate_qr_code == <<"M", "T", ":">> \o PadLeft(Base38(Limbs(QrValue), <<>>), "0", 20)

DecimalChars == <<"0", "1", "2", "3", "4", "5", "6", "7", "8", "9">>

\* The decimal digits of a natural number n = [lo, hi], in front of `digits`
RECURSIVE Decimal(_, _)
Decimal(n, digits) ==
    IF n.lo = 0 /\ n.hi = 0 THEN digits
    ELSE LET t == (n.hi % 10) * 65536 + n.lo
         IN  Decimal([lo |-> t \div 10, hi |-> n.hi \div 10],
                     <<DecimalChars[(t % 10) + 1]>> \o digits)

\* f"{manual_code_value:011d}": at least 11 digits
manual_code_str == PadLeft(Decimal(passcode, <<>>), "0", 11)

\* the manual code grouped 3-4-4
manual_code_grouped_344 ==
    Slice(manual_code_str, 0, 3) \o <<"-">> \o Slice(manual_code_str, 3, 7)
        \o <<"-">> \o Slice(manual_code_str, 7, 11)

manual_code ==
    Slice(manual_code_str, 0, 4) \o <<"-">> \o Slice(manual_code_str, 4, 7)
        \o <<"-">> \o Slice(manual_code_str, 7, 11)

\* _display_pairing_info prints the QR payload and the manual code.
_display_pairing_info ==
    /\ pairing_shown' = pairing_shown + 1
    /\ printed' = [qr_payload |-> _generate_qr_code,
                   manual_code |-> manual_code]

(***************************************************************************)
(* LumiMatter.start.  Its suspension points: in _start_udp_server          *)
(* (create_datagram_endpoint), in _start_mdns (async_register_service)     *)
(* and aio.wait on the three tasks.                                        *)
(***************************************************************************)
\* start() is called: it runs to the await in _start_udp_server.
StartCall ==
    /\ start.pc = "idle" /\ close.pc = "idle"
    /\ _udp_protocol' = "set"
    /\ start' = [start EXCEPT !.pc = "udp"]
    /\ UNCHANGED <<dataVars, codec, configVars, netVars, taskVars, close,
                   _udp_transport, zeroconf, service_info, mdns_registered,
                   pairing_shown, printed>>

\* The TXT records _start_mdns builds.
TxtRecords == [CM |-> IF ~_commissioned THEN "1" ELSE "0", DT |-> "65535"]

\* The socket is bound: _udp_transport is set and _start_mdns runs to its
\* await of async_register_service, or AsyncZeroconf() raises.
StartUdpBound ==
    /\ start.pc = "udp"
    /\ _udp_transport' = "open"
    /\ \/ /\ zeroconf' = "open"
          /\ service_info' = <<TxtRecords>>
          /\ start' = [start EXCEPT !.pc = "mdns"]
       \/ /\ start' = [start EXCEPT !.pc = "done", !.out = "exc",
                                    !.err = Err("zeroconf", 0)]
          /\ UNCHANGED <<zeroconf, service_info>>
    /\ UNCHANGED <<dataVars, codec, configVars, netVars, taskVars, close,
                   _udp_protocol, mdns_registered, pairing_shown, printed>>

\* A start() that goes on to announce the bridge when binding has failed.
StartUdpFailsUnnoticed ==
    /\ start.pc = "udp"
    /\ zeroconf' = "open"
    /\ service_info' = <<TxtRecords>>
    /\ start' = [start EXCEPT !.pc = "mdns", !.err = Err("bind", 0)]
    /\ UNCHANGED <<dataVars, codec, configVars, netVars, taskVars, close,
                   _udp_transport, _udp_protocol, mdns_registered,
                   pairing_shown, printed>>

\* Binding the socket fails: create_datagram_endpoint raises OSError.
StartUdpFails ==
    /\ start.pc = "udp"
    /\ start' = [start EXCEPT !.pc = "done", !.out = "exc", !.err = Err("bind", 0)]
    /\ UNCHANGED <<dataVars, codec, configVars, netVars, serviceVars, taskVars,
                   close>>

\* The announcement is registered: the pairing information is printed, the
\* three tasks are created and start() waits for the first to complete.
StartMdnsRegistered ==
    /\ start.pc = "mdns"
    /\ mdns_registered' = TRUE
    /\ _display_pairing_info
    /\ _tasks' = <<"buttons", "lights", "commissioning">>
    /\ task' = [n \in TaskNames |-> NewTask]
    /\ start' = [start EXCEPT !.pc = "wait"]
    /\ UNCHANGED <<dataVars, codec, configVars, netVars, close, btask, relay,
                   _udp_transport, _udp_protocol, zeroconf, service_info>>

\* async_register_service raises.
StartMdnsFails ==
    /\ start.pc = "mdns"
    /\ start' = [start EXCEPT !.pc = "done", !.out = "exc", !.err = Err("mdns", 0)]
    /\ UNCHANGED <<dataVars, codec, configVars, netVars, serviceVars, taskVars,
                   close>>

\* start() is cancelled at the await it is suspended in.  A cancellation
\* that reaches the registration may find the service in the registry or not.
StartInterrupted ==
    /\ start.pc \in {"udp", "mdns", "wait"}
    /\ start' = [start EXCEPT !.pc = "done", !.out = "cancelled"]
    /\ IF start.pc = "mdns"
       THEN mdns_registered' \in BOOLEAN
       ELSE UNCHANGED mdns_registered
    /\ UNCHANGED <<dataVars, codec, configVars, netVars, taskVars, close,
                   _udp_transport, _udp_protocol, zeroconf, service_info,
                   pairing_shown, printed>>

\* A start() that never reads the finished tasks' results.
StartWaitReturnsIgnoringResults ==
    /\ start.pc = "wait"
    /\ \E n \in TaskNames : Done(task[n])
    /\ start' = [start EXCEPT !.pc = "done", !.out = "ok"]
    /\ UNCHANGED <<dataVars, codec, configVars, netVars, serviceVars, taskVars, close>>

\* A start() that cancels the tasks still pending when aio.wait returns.
StartWaitReturnsCancellingTheRest ==
    /\ start.pc = "wait"
    /\ LET finished == {n \in TaskNames : Done(task[n])}
           failed == {n \in finished : task[n].st # "ok"}
       IN  /\ finished # {}
           /\ IF failed = {}
              THEN start' = [start EXCEPT !.pc = "done", !.out = "ok"]
              ELSE \E n \in failed :
                     start' = [start EXCEPT !.pc = "done",
                                            !.out = task[n].st,
                                            !.err = task[n].err]
    /\ task' = [n \in TaskNames |-> Cancel(task[n])]
    /\ UNCHANGED <<dataVars, codec, configVars, netVars, serviceVars, close,
                   _tasks, btask, relay>>

\* aio.wait returns: finished holds every task that is done by now, and
\* `for t in finished: t.result()` raises what the first failed one holds.
StartWaitReturns ==
    /\ start.pc = "wait"
    /\ LET finished == {n \in TaskNames : Done(task[n])}
           failed == {n \in finished : task[n].st # "ok"}
       IN  /\ finished # {}
           /\ IF failed = {}
              THEN start' = [start EXCEPT !.pc = "done", !.out = "ok"]
              ELSE \E n \in failed :
                     start' = [start EXCEPT !.pc = "done",
                                            !.out = task[n].st,
                                            !.err = task[n].err]
    /\ UNCHANGED <<dataVars, codec, configVars, netVars, serviceVars, taskVars,
                   close>>

(***************************************************************************)
(* The light monitor and the commissioning loop: `while True: sleep`.      *)
(* Neither completes unless it is cancelled.                               *)
(***************************************************************************)
Loops == {"lights", "commissioning"}

\* _handle_lights / _handle_commissioning: one sleep elapses.
LoopTick(n) ==
    /\ Pending(task[n]) /\ ~task[n].cancel
    /\ UNCHANGED vars

\* The CancelledError is delivered at the sleep and ends the task.
LoopCancelled(n) ==
    /\ Pending(task[n]) /\ task[n].cancel
    /\ task' = [task EXCEPT ![n] = Finish(@, "cancelled", NoErr)]
    /\ UNCHANGED <<dataVars, codec, configVars, netVars, serviceVars, start,
                   close, _tasks, btask, relay>>

(***************************************************************************)
(* The per-button tasks, button.handle(self._on_button_event).  The Button *)
(* is an external device: its handle() may return, raise, or report an     *)
(* action; a cancellation ends it as cancelled.                            *)
(***************************************************************************)
ButtonActions == {"single", "hold", "unknown"}

_map_button_action_to_matter(action) ==
    CASE action = "single"  -> 2
      [] action = "double"  -> 5
      [] action = "triple"  -> 5
      [] action = "hold"    -> 1
      [] action = "release" -> 3
      [] OTHER              -> 0

\* _on_button_event: maps the action and looks the endpoint up; it logs and
\* changes nothing.
ButtonEvent(i) ==
    /\ i \in DOMAIN btask
    /\ Pending(btask[i]) /\ ~btask[i].cancel
    /\ \E action \in ButtonActions :
         _map_button_action_to_matter(action) \in 0..5
    /\ UNCHANGED vars

\* handle() returns (ok) or raises (exc).
ButtonCompletes(i) ==
    /\ i \in DOMAIN btask
    /\ Pending(btask[i]) /\ ~btask[i].cancel
    /\ \E st \in {"ok", "exc"} :
         btask' = [btask EXCEPT
                     ![i] = Finish(@, st, IF st = "exc" THEN Err("button", i)
                                                       ELSE NoErr)]
    /\ UNCHANGED <<dataVars, codec, configVars, netVars, serviceVars, start,
                   close, _tasks, task, relay>>

ButtonCancelled(i) ==
    /\ i \in DOMAIN btask
    /\ Pending(btask[i]) /\ btask[i].cancel
    /\ btask' = [btask EXCEPT ![i] = Finish(@, "cancelled", NoErr)]
    /\ UNCHANGED <<dataVars, codec, configVars, netVars, serviceVars, start,
                   close, _tasks, task, relay>>

(***************************************************************************)
(* The button relay, _handle_buttons.  It awaits a button task in two      *)
(* loops: over `tasks` in list order after a cancellation ("cancelling"),  *)
(* and over the set `unfinished` after aio.wait returned ("cleanup");      *)
(* relay.order is the order of the loop and relay.idx its position.        *)
(*                                                                         *)
(* Awaiting a task that is done does not suspend, so a loop runs on until  *)
(* it meets a pending task (which it cancels and awaits), a failed task    *)
(* (`await t` raises its exception, caught only if CancelledError) or its  *)
(* end.                                                                    *)
(***************************************************************************)
RECURSIVE Scan(_, _, _)
Scan(order, i, bt) ==
    IF i > Len(order) THEN [kind |-> "end", at |-> 0]
    ELSE IF Pending(bt[order[i]]) THEN [kind |-> "suspend", at |-> i]
    ELSE IF bt[order[i]].st = "exc" THEN [kind |-> "raise", at |-> i]
    ELSE Scan(order, i + 1, bt)

\* The orders a set may be iterated in.
Orders(S) ==
    {o \in [1..Cardinality(S) -> S] : \A i, j \in DOMAIN o :
                                         i # j => o[i] # o[j]}

\* `for t in finished: t.result()`: the outcomes of the relay's task.
RelayResults(finished, bt) ==
    LET failed == {i \in finished : bt[i].st # "ok"}
    IN  IF failed = {} THEN {Finish(NewTask, "ok", NoErr)}
        ELSE {Finish(NewTask, bt[i].st, bt[i].err) : i \in failed}

\* One of the two loops runs on from position i of order.
RelayLoop(phase, order, i, finished) ==
    LET r == Scan(order, i, btask) IN
    CASE r.kind = "suspend" ->
           /\ btask' = [btask EXCEPT ![order[r.at]] = Cancel(@)]
           /\ relay' = [pc |-> phase, order |-> order, idx |-> r.at,
                        finished |-> finished]
           /\ task' = [task EXCEPT !["buttons"].cancel = FALSE]
      [] r.kind = "raise" ->
           /\ task' = [task EXCEPT !["buttons"] =
                          Finish(@, "exc", btask[order[r.at]].err)]
           /\ relay' = [RelayIdle EXCEPT !.pc = "done"]
           /\ UNCHANGED btask
      [] r.kind = "end" /\ phase = "cancelling" ->
           /\ task' = [task EXCEPT !["buttons"] =
                          Finish(@, "cancelled", NoErr)]
           /\ relay' = [RelayIdle EXCEPT !.pc = "done"]
           /\ UNCHANGED btask
      [] r.kind = "end" /\ phase = "cleanup" ->
           /\ \E res \in RelayResults(finished, btask) :
                task' = [task EXCEPT !["buttons"] = res]
           /\ relay' = [RelayIdle EXCEPT !.pc = "done"]
           /\ UNCHANGED btask

\* The task's first step: one task per button, then aio.wait, or
\* Event().wait() when there is no button.
RelayStarts ==
    /\ Pending(task["buttons"]) /\ ~task["buttons"].cancel
    /\ relay.pc = "init"
    /\ btask' = [i \in 1..Len(buttons) |-> NewTask]
    /\ relay' = [relay EXCEPT
                   !.pc = IF buttons = <<>> THEN "forever" ELSE "wait"]
    /\ UNCHANGED <<dataVars, codec, configVars, netVars, serviceVars, start,
                   close, _tasks, task>>

\* Cancelled before its first step, or in Event().wait(): the task ends
\* cancelled.
RelayCancelledIdle ==
    /\ Pending(task["buttons"]) /\ task["buttons"].cancel
    /\ relay.pc \in {"init", "forever"}
    /\ task' = [task EXCEPT !["buttons"] = Finish(@, "cancelled", NoErr)]
    /\ relay' = [RelayIdle EXCEPT !.pc = "done"]
    /\ UNCHANGED <<dataVars, codec, configVars, netVars, serviceVars, start,
                   close, _tasks, btask>>

\* aio.wait returns with a button task done: the unfinished ones are
\* cancelled and awaited one by one, then the finished ones' results read.
RelayWaitReturns ==
    /\ Pending(task["buttons"]) /\ ~task["buttons"].cancel
    /\ relay.pc = "wait"
    /\ LET finished == {i \in DOMAIN btask : Done(btask[i])}
           unfinished == DOMAIN btask \ finished
       IN  /\ finished # {}
           /\ \E order \in Orders(unfinished) :
                RelayLoop("cleanup", order, 1, finished)
    /\ UNCHANGED <<dataVars, codec, configVars, netVars, serviceVars, start,
                   close, _tasks>>

\* aio.wait raises CancelledError: every button task is cancelled and
\* awaited in list order, then the CancelledError is raised again.
RelayWaitCancelled ==
    /\ Pending(task["buttons"]) /\ task["buttons"].cancel
    /\ relay.pc = "wait"
    /\ RelayLoop("cancelling", [i \in DOMAIN btask |-> i], 1, {})
    /\ UNCHANGED <<dataVars, codec, configVars, netVars, serviceVars, start,
                   close, _tasks>>

\* The awaited button task is done: `await t` returns, or raises a
\* CancelledError (the task's, or the relay's own pending cancellation)
\* that `except CancelledError: pass` swallows, and the loop runs on.
RelayAwaitReturns ==
    /\ Pending(task["buttons"])
    /\ relay.pc \in {"cleanup", "cancelling"}
    /\ Done(btask[relay.order[relay.idx]])
    /\ IF btask[relay.order[relay.idx]].st = "exc" /\ ~task["buttons"].cancel
       THEN /\ task' = [task EXCEPT !["buttons"] =
                           Finish(@, "exc", btask[relay.order[relay.idx]].err)]
            /\ relay' = [RelayIdle EXCEPT !.pc = "done"]
            /\ UNCHANGED btask
       ELSE RelayLoop(relay.pc, relay.order, relay.idx + 1, relay.finished)
    /\ UNCHANGED <<dataVars, codec, configVars, netVars, serviceVars, start,
                   close, _tasks>>

(***************************************************************************)
(* LumiMatter.close.  Its suspension points: in _stop_mdns                 *)
(* (async_unregister_service, then async_close) and `await task` for each  *)
(* task it cancelled.                                                      *)
(***************************************************************************)
\* The first task of _tasks from position i on that is not done, or 0.
RECURSIVE NextPending(_, _)
NextPending(i, tk) ==
    IF i > Len(_tasks) THEN 0
    ELSE IF Pending(tk[_tasks[i]]) THEN i
    ELSE NextPending(i + 1, tk)

\* `for task in self._tasks` runs on from position i: the next task that is
\* not done is cancelled and awaited; with none left close() returns.
CloseLoopIn(call, i) ==
    LET j == NextPending(i, task) IN
    IF j = 0
    THEN /\ close' = [call EXCEPT !.pc = "done", !.out = "ok"]
         /\ UNCHANGED task
    ELSE /\ task' = [task EXCEPT ![_tasks[j]] = Cancel(@)]
         /\ close' = [call EXCEPT !.pc = "await", !.idx = j]

CloseLoop(i) == CloseLoopIn(close, i)

\* close() is called once start() has ended or when it never ran, or again
\* once the call before it has ended, up to the given number of calls: the
\* transport is closed, then _stop_mdns or the task loop runs to its await.
CloseCallUpTo(calls) ==
    /\ \/ close.pc = "idle"
       \/ close.pc = "done" /\ close.calls < calls
    /\ start.pc \in {"idle", "done"}
    /\ IF _udp_transport # None
       THEN _udp_transport' = "closed" /\ inbox' = <<>>
       ELSE UNCHANGED <<_udp_transport, inbox>>
    /\ LET call == [NotClosing EXCEPT !.calls = close.calls + 1] IN
       IF zeroconf # None
       THEN /\ close' = [call EXCEPT
                           !.pc = IF service_info # <<>> THEN "unregister"
                                                         ELSE "zc_close"]
            /\ UNCHANGED task
       ELSE CloseLoopIn(call, 1)
    /\ UNCHANGED <<dataVars, codec, configVars, arrived, received, sent,
                   start, _udp_protocol, zeroconf, service_info,
                   mdns_registered, pairing_shown, printed, _tasks, btask, relay>>

CloseCall == CloseCallUpTo(MaxCloses)

\* close() is called, once.
CloseCallOnce == CloseCallUpTo(1)

\* async_unregister_service returns: async_close is awaited next.
CloseUnregistered ==
    /\ close.pc = "unregister"
    /\ mdns_registered' = FALSE
    /\ close' = [close EXCEPT !.pc = "zc_close"]
    /\ UNCHANGED <<dataVars, codec, configVars, netVars, taskVars, start,
                   _udp_transport, _udp_protocol, zeroconf, service_info,
                   pairing_shown, printed>>

\* async_close returns: the task loop begins.
CloseZeroconfClosed ==
    /\ close.pc = "zc_close"
    /\ zeroconf' = "closed"
    /\ CloseLoop(1)
    /\ UNCHANGED <<dataVars, codec, configVars, netVars, start,
                   _udp_transport, _udp_protocol, service_info,
                   mdns_registered, pairing_shown, printed, _tasks, btask, relay>>

\* The awaited task is done: a CancelledError is swallowed, any other
\* exception leaves close(), and otherwise the loop runs on.
CloseAwaitReturns ==
    /\ close.pc = "await"
    /\ Done(task[_tasks[close.idx]])
    /\ IF task[_tasks[close.idx]].st = "exc"
       THEN /\ close' = [close EXCEPT !.pc = "done", !.out = "exc",
                                      !.err = task[_tasks[close.idx]].err]
            /\ UNCHANGED task
       ELSE CloseLoop(close.idx + 1)
    /\ UNCHANGED <<dataVars, codec, configVars, netVars, serviceVars, start,
                   _tasks, btask, relay>>

(***************************************************************************)
(* The network and MatterUDPProtocol.datagram_received.                    *)
(***************************************************************************)
Header(flags, sid_lo, sid_hi, sec, c1, c2, c3, c4) ==
    <<flags, sid_lo, sid_hi, sec, c1, c2, c3, c4>>

\* The datagrams the network may deliver, with their senders.
Datagrams ==
    { [data |-> <<0, 0, 0, 0, 1, 0, 0>>, addr |-> "peer1"],
      [data |-> Header(0, 0, 0, 0, 5, 0, 0, 0), addr |-> "peer1"],
      [data |-> Header(4, 0, 0, 1, 255, 255, 0, 0) \o <<9, 8, 7>>,
       addr |-> "peer2"],
      [data |-> Header(5, 0, 0, 7, 254, 255, 255, 255) \o <<1, 2, 3, 4>>,
       addr |-> "peer1"],
      [data |-> Header(0, 0, 0, 0, 255, 255, 255, 255) \o <<1, 2, 3, 4>>,
       addr |-> "peer1"],
      [data |-> Header(0, 0, 1, 0, 7, 0, 0, 0) \o <<1, 2, 3, 4>>,
       addr |-> "peer2"] }

\* A datagram reaches the bound socket.
Arrive ==
    /\ _udp_transport = "open"
    /\ Len(arrived) < MaxDatagrams
    /\ \E d \in Datagrams :
         /\ inbox' = Append(inbox, d)
         /\ arrived' = Append(arrived, d)
    /\ UNCHANGED <<dataVars, codec, configVars, serviceVars, taskVars, start,
                   close, received, sent>>

\* A handler that reports a datagram it cannot parse or answer to its sender
\* with the bare exception marker 0xFF.
RepliesReportingErrors(data, addr) ==
    LET parsed == _parse_matter_message(data)
        response == _handle_matter_message(parsed.msg)
    IN  IF parsed.exc # None THEN <<[data |-> <<255>>, addr |-> addr]>>
        ELSE IF response.exc # None THEN <<[data |-> <<255>>, addr |-> addr]>>
        ELSE IF response.none \/ response.val = <<>> THEN <<>>
        ELSE <<[data |-> response.val, addr |-> addr]>>

\* What datagram_received passes to transport.sendto for one datagram: the
\* response, or nothing when parsing or handling raised (the exception is
\* logged and swallowed) or when the response is None or empty.
Replies(data, addr) ==
    LET parsed == _parse_matter_message(data)
        response == _handle_matter_message(parsed.msg)
    IN  IF parsed.exc # None THEN <<>>
        ELSE IF response.exc # None THEN <<>>
        ELSE IF response.none \/ response.val = <<>> THEN <<>>
        ELSE <<[data |-> response.val, addr |-> addr]>>

\* The replies to the datagram at position i of `received`.
Caused(replies, i) ==
    [k \in DOMAIN replies |->
       [data |-> replies[k].data, addr |-> replies[k].addr, re |-> i]]

\* A handler that completes commissioning on the first answered datagram.
datagram_received_commissioning ==
    /\ _udp_transport = "open"
    /\ inbox # <<>>
    /\ received' = Append(received, Head(inbox))
    /\ sent' = sent \o Caused(Replies(Head(inbox).data, Head(inbox).addr),
                              Len(received) + 1)
    /\ inbox' = Tail(inbox)
    /\ _commissioned' = (_commissioned
                         \/ Replies(Head(inbox).data, Head(inbox).addr) # <<>>)
    /\ UNCHANGED <<registryVars, _fabric_id, deviceVars, codec, configVars, serviceVars,
                   taskVars, start, close, arrived>>

\* A receive loop that hands over the newest datagram first.
datagram_received_newest_first ==
    /\ _udp_transport = "open"
    /\ inbox # <<>>
    /\ received' = Append(received, inbox[Len(inbox)])
    /\ sent' = sent \o Caused(Replies(inbox[Len(inbox)].data,
                                      inbox[Len(inbox)].addr),
                              Len(received) + 1)
    /\ inbox' = SubSeq(inbox, 1, Len(inbox) - 1)
    /\ UNCHANGED <<dataVars, codec, configVars, serviceVars, taskVars, start, close,
                   arrived>>

\* The event loop reads the oldest datagram and calls datagram_received.
datagram_received ==
    /\ _udp_transport = "open"
    /\ inbox # <<>>
    /\ received' = Append(received, Head(inbox))
    /\ sent' = sent \o Caused(Replies(Head(inbox).data, Head(inbox).addr),
                              Len(received) + 1)
    /\ inbox' = Tail(inbox)
    /\ UNCHANGED <<dataVars, codec, configVars, serviceVars, taskVars,
                   start, close, arrived>>

(***************************************************************************)
(* Specifications.                                                         *)
(***************************************************************************)
StartSteps ==
    \/ StartCall
    \/ StartUdpBound
    \/ StartUdpFails
    \/ StartMdnsRegistered
    \/ StartMdnsFails
    \/ StartInterrupted
    \/ StartWaitReturns

CloseSteps ==
    \/ CloseCall
    \/ CloseUnregistered
    \/ CloseZeroconfClosed
    \/ CloseAwaitReturns

TaskSteps ==
    \/ \E n \in Loops : LoopTick(n)
    \/ \E n \in Loops : LoopCancelled(n)
    \/ RelayStarts
    \/ RelayCancelledIdle
    \/ RelayWaitReturns
    \/ RelayWaitCancelled
    \/ RelayAwaitReturns
    \/ \E i \in DOMAIN btask : ButtonEvent(i)
    \/ \E i \in DOMAIN btask : ButtonCompletes(i)
    \/ \E i \in DOMAIN btask : ButtonCancelled(i)

\* The supervisor: registration, start, close and the tasks.
Next == Register \/ StartSteps \/ CloseSteps \/ TaskSteps

Spec == Init /\ [][Next]_vars

\* The supervisor on an event loop that resumes start() once the wait it is
\* suspended in can return.
FairSpec == Spec /\ WF_vars(StartWaitReturns)

\* The UDP protocol on a bridge of lights only, as the entry point builds it:
\* no button is registered, so the relay has no button task, no task
\* completes by itself and start() ends only by failing or being cancelled.
RegisterNoButton == RegisterOf({"light1", "other", None})

\* The first light registered is toggled.
ToggleLight == lights # <<>> /\ Dispatch(ToggleFirst)

NextUdp ==
    \/ RegisterNoButton
    \/ StartCall
    \/ StartUdpBound
    \/ StartUdpFails
    \/ StartMdnsRegistered
    \/ StartMdnsFails
    \/ StartInterrupted
    \/ CloseCallOnce
    \/ CloseUnregistered
    \/ CloseZeroconfClosed
    \/ CloseAwaitReturns
    \/ \E n \in Loops : LoopTick(n)
    \/ \E n \in Loops : LoopCancelled(n)
    \/ RelayStarts
    \/ RelayCancelledIdle
    \/ Arrive
    \/ datagram_received
    \/ ToggleLight

SpecUdp == Init /\ [][NextUdp]_vars

(***************************************************************************)
(* The codec on its own: the packing of the two builders applied to given  *)
(* fields, and _parse_matter_message applied to the bytes it gives.        *)
(***************************************************************************)
RECURSIVE SeqsUpTo(_, _)
SeqsUpTo(S, n) ==
    IF n = 0 THEN {<<>>}
    ELSE LET shorter == SeqsUpTo(S, n - 1)
         IN  shorter \cup {Append(q, x) : q \in shorter, x \in S}

CodecBytes == {0, 1, 128, 255}
CodecShorts == {0, 1, 255, 256, 4660, 65535}
CodecLimbs == {0, 255, 256, 65535}
CodecPayloads == SeqsUpTo({0, 255}, MaxPayload) \cup {<<1>>, PasePayload}

InitCodec ==
    /\ DefaultConfig
    /\ InitBridge
    /\ codec \in {[NoCodec EXCEPT !.pc = "fields", !.flags = f,
                                  !.session_id = sid, !.security_flags = sec,
                                  !.message_counter = [lo |-> lo, hi |-> hi],
                                  !.payload = p] :
                    f \in CodecBytes, sid \in CodecShorts, sec \in CodecBytes,
                    lo \in CodecLimbs, hi \in CodecLimbs,
                    p \in CodecPayloads}

CodecBuild ==
    /\ codec.pc = "fields"
    /\ LET r == PackMessage(codec.flags, codec.session_id,
                            codec.security_flags, codec.message_counter,
                            codec.payload)
       IN  codec' = [codec EXCEPT !.pc = IF r.exc = None THEN "built"
                                                          ELSE "raised",
                                  !.built = r.val]
    /\ UNCHANGED <<dataVars, configVars, netVars, serviceVars, taskVars,
                   start, close>>

CodecParse ==
    /\ codec.pc = "built"
    /\ LET r == _parse_matter_message(codec.built)
       IN  codec' = [codec EXCEPT !.pc = IF r.exc = None THEN "parsed"
                                                          ELSE "raised",
                                  !.parsed = r.msg]
    /\ UNCHANGED <<dataVars, configVars, netVars, serviceVars, taskVars,
                   start, close>>

NextCodec == CodecBuild \/ CodecParse

SpecCodec == InitCodec /\ [][NextCodec]_vars

(***************************************************************************)
(* Properties of the UDP protocol (SpecUdp).                               *)
(***************************************************************************)
\* The replies sent for the datagram at position i of received.
RepliesTo(i) == SelectSeq(sent, LAMBDA r : r.re = i)

\* A datagram's header fields and payload, read off its bytes.
SessionBytes(d) == SubSeq(d.data, 2, 3)
CounterBytes(d) == SubSeq(d.data, 5, 8)
PayloadBytes(d) == SubSeq(d.data, 9, Len(d.data))
IsCommissioning(d) == Len(d.data) >= 8 /\ SessionBytes(d) = <<0, 0>>
IsOperational(d) == Len(d.data) >= 8 /\ SessionBytes(d) # <<0, 0>>

\* A little-endian number plus one, byte by byte with carry.
RECURSIVE PlusOne(_)
PlusOne(b) ==
    IF b = <<>> THEN <<>>
    ELSE IF Head(b) = 255 THEN <<0>> \o PlusOne(Tail(b))
    ELSE <<Head(b) + 1>> \o Tail(b)

\* C1: every received datagram of at least 8 bytes with session_id 0 has
\* exactly one reply, sent to its sender: the minimal response (flags 0,
\* session 0, security flags 0, payload 15 30 01 00) when its payload has 4
\* bytes or more, the failure status (flags 0, the request's session,
\* security flags 0, payload 01) otherwise.
C1_OneReplyPerCommissioningDatagram ==
    \A i \in DOMAIN received :
      IsCommissioning(received[i]) =>
        /\ Len(RepliesTo(i)) = 1
        /\ LET r == RepliesTo(i)[1] IN
           /\ r.addr = received[i].addr
           /\ Len(r.data) >= 8
           /\ r.data[1] = 0
           /\ SessionBytes(r) = SessionBytes(received[i])
           /\ r.data[4] = 0
           /\ PayloadBytes(r) = IF Len(PayloadBytes(received[i])) >= 4
                                THEN <<21, 48, 1, 0>>
                                ELSE <<1>>

\* C2: every reply carries the message counter of its request plus one, and
\* every commissioning request, whatever its 32-bit counter, has a reply.
C2_ReplyCounterIsRequestPlusOne ==
    \A i \in DOMAIN received :
      /\ \A k \in DOMAIN RepliesTo(i) :
           CounterBytes(RepliesTo(i)[k]) = PlusOne(CounterBytes(received[i]))
      /\ IsCommissioning(received[i]) => RepliesTo(i) # <<>>

\* C3: the session never leaves its initial state: the commissioned flag is
\* false and the fabric ID unset in every state, the announcement carries
\* CM = "1", and two receptions of the same datagram are answered alike,
\* whatever was received, registered, dispatched, started or closed between.
C3_SessionStaysIdle ==
    /\ _commissioned = FALSE
    /\ _fabric_id = None
    /\ service_info # <<>> => service_info[1].CM = "1"
    /\ \A i, j \in DOMAIN received :
         received[i] = received[j] =>
           /\ Len(RepliesTo(i)) = Len(RepliesTo(j))
           /\ \A k \in DOMAIN RepliesTo(i) :
                /\ RepliesTo(i)[k].data = RepliesTo(j)[k].data
                /\ RepliesTo(i)[k].addr = RepliesTo(j)[k].addr

\* The same datagram answered twice on a bridge with a light that was
\* toggled, announced and closed.
C3_Witness ==
    /\ close.pc = "done"
    /\ service_info # <<>>
    /\ lights # <<>>
    /\ last_set # NoSet
    /\ \E i, j \in DOMAIN received :
         i < j /\ received[i] = received[j] /\ RepliesTo(j) # <<>>

\* C4: handling a datagram whose session_id is not 0 sends nothing, requests
\* no device operation and changes no light, registry or session state (nor
\* anything but the socket's queue).
C4_OperationalTrafficIgnored ==
    [][ (Len(received') = Len(received) + 1
         /\ IsOperational(received'[Len(received')]))
        => /\ sent' = sent
           /\ UNCHANGED <<registryVars, sessionVars, deviceVars, serviceVars,
                          taskVars, start, close>> ]_vars

\* An operational datagram was handled on a running bridge with a light.
C4_Witness ==
    /\ lights # <<>>
    /\ Pending(task["lights"])
    /\ \E i \in DOMAIN received : IsOperational(received[i])

\* C5: a datagram shorter than 8 bytes is rejected by the parser and has no
\* reply, and handling any datagram changes nothing but the socket's queue
\* and the replies: the transport stays open, the datagrams behind it stay
\* queued for the handler and no task or coroutine of the supervisor moves.
C5_NoDatagramIsFatal ==
    [][ Len(received') = Len(received) + 1
        => LET d == received'[Len(received')] IN
           /\ Len(d.data) < 8 =>
                /\ _parse_matter_message(d.data).exc # None
                /\ sent' = sent
           /\ d = Head(inbox) /\ inbox' = Tail(inbox)
           /\ _udp_transport' = "open"
           /\ UNCHANGED <<dataVars, serviceVars, taskVars, start, close>> ]_vars

\* A short datagram was dropped and a later datagram was answered while the
\* three tasks run.
C5_Witness ==
    /\ \A n \in TaskNames : Pending(task[n])
    /\ \E i, j \in DOMAIN received :
         /\ i < j
         /\ Len(received[i].data) < 8
         /\ RepliesTo(i) = <<>>
         /\ RepliesTo(j) # <<>>

\* C7: datagrams are handled in the order they arrived, each one wholly
\* before the next: the handled ones are a prefix of the arrived ones, and
\* in every state the datagrams sent are exactly the replies to the handled
\* ones, in the order of their requests.
RECURSIVE RepliesInOrder(_)
RepliesInOrder(n) ==
    IF n = 0 THEN <<>>
    ELSE RepliesInOrder(n - 1)
         \o Caused(Replies(received[n].data, received[n].addr), n)

C7_ArrivalOrder ==
    /\ Len(received) <= Len(arrived)
    /\ received = SubSeq(arrived, 1, Len(received))
    /\ _udp_transport = "open" => arrived = received \o inbox
    /\ sent = RepliesInOrder(Len(received))

\* Two different datagrams were queued together and both answered.
C7_Witness ==
    /\ Len(sent) = 2
    /\ Len(arrived) = 2
    /\ arrived[1] # arrived[2]
    /\ sent[1].re = 1 /\ sent[2].re = 2

(***************************************************************************)
(* Properties of the codec (SpecCodec).                                    *)
(***************************************************************************)
\* C6: for fields in their ranges, the bytes built have length 8 plus the
\* payload's, hold session_id and message_counter little-endian, and parse
\* back to the five fields they were built from.
C6_FramingRoundTrip ==
    /\ codec.pc # "raised"
    /\ codec.pc \in {"built", "parsed"} =>
         /\ Len(codec.built) = 8 + Len(codec.payload)
         /\ codec.built[1] = codec.flags
         /\ codec.built[2] + 256 * codec.built[3] = codec.session_id
         /\ codec.built[4] = codec.security_flags
         /\ codec.built[5] + 256 * codec.built[6] = codec.message_counter.lo
         /\ codec.built[7] + 256 * codec.built[8] = codec.message_counter.hi
         /\ SubSeq(codec.built, 9, Len(codec.built)) = codec.payload
    /\ codec.pc = "parsed" =>
         codec.parsed = [flags           |-> codec.flags,
                         session_id      |-> codec.session_id,
                         security_flags  |-> codec.security_flags,
                         message_counter |-> codec.message_counter,
                         payload         |-> codec.payload]

\* A message with a two-byte session, a counter above 2^31 and the minimal
\* response's payload was built and parsed.
C6_Witness ==
    /\ codec.pc = "parsed"
    /\ codec.session_id = 4660
    /\ codec.message_counter = [lo |-> 256, hi |-> 65535]
    /\ codec.payload = PasePayload

(***************************************************************************)
(* Properties of the supervisor (Spec).                                    *)
(***************************************************************************)
\* The order of start() and the origin of its outcome, as a state predicate.
StartOrderAndOutcome ==
    /\ zeroconf # None => _udp_transport # None
    /\ mdns_registered => zeroconf # None /\ service_info # <<>>
    /\ _tasks # <<>> =>
         /\ _tasks = <<"buttons", "lights", "commissioning">>
         /\ \A n \in TaskNames : task[n].st # "none"
         /\ _udp_transport # None /\ zeroconf # None /\ service_info # <<>>
         /\ pairing_shown = 1
    /\ _tasks = <<>> => \A n \in TaskNames : task[n].st = "none"
    /\ start.pc = "done" /\ start.out = "ok" =>
         \E n \in TaskNames : task[n].st = "ok"
    /\ start.pc = "done" /\ start.out = "exc"
         /\ start.err.kind \notin {"bind", "zeroconf", "mdns"} =>
         \E n \in TaskNames : task[n].st = "exc" /\ task[n].err = start.err
    /\ start.pc = "done" /\ start.out = "cancelled" =>
         start.err = NoErr

\* C8: start() binds the socket before it announces and announces before it
\* spawns the three tasks; when it returns, one of the tasks completed
\* normally, and when it raises a task's exception, that task failed with
\* it, so it does not end by itself while the three tasks run; and once a
\* task is done while start() waits, start() ends.
C8_StartOrderAndOutcome ==
    /\ []StartOrderAndOutcome
    /\ (start.pc = "wait" /\ \E n \in TaskNames : Done(task[n]))
         ~> (start.pc = "done")

\* start() raised the exception of the relay, which a button handler
\* raised, while the other two tasks run.
C8_Witness ==
    /\ start.pc = "done"
    /\ start.out = "exc"
    /\ start.err.kind = "button"
    /\ task["buttons"].st = "exc"
    /\ Pending(task["lights"]) /\ Pending(task["commissioning"])
    /\ close.pc = "idle"

\* C9: in close(), no task is running once the socket is closed or the
\* announcement withdrawn: every task was cancelled and ended before.
C9_TasksEndBeforeSocketCloses ==
    close.pc # "idle" /\ _udp_transport = "closed" =>
      /\ \A n \in TaskNames : ~Pending(task[n])
      /\ \A i \in DOMAIN btask : ~Pending(btask[i])

\* C10: once close() has ended, after start() ended in any way, the socket
\* is closed, the announcement withdrawn and no task, the button handlers
\* included, is running.
C10_CloseLeavesNothingRunning ==
    close.pc = "done" =>
      /\ _udp_transport # "open"
      /\ ~mdns_registered
      /\ \A n \in TaskNames : ~Pending(task[n])
      /\ \A i \in DOMAIN btask : ~Pending(btask[i])

\* C12: when binding the UDP socket fails, start() fails with that error
\* and nothing else of the startup has happened or happens later: there is
\* no socket, no announcement, no task and no pairing information.
C12_BindFailureAbortsStartup ==
    start.err.kind = "bind" =>
      /\ start.pc = "done" /\ start.out = "exc"
      /\ _udp_transport = None
      /\ zeroconf = None /\ service_info = <<>> /\ ~mdns_registered
      /\ _tasks = <<>>
      /\ \A n \in TaskNames : task[n] = NoTask
      /\ btask = <<>>
      /\ pairing_shown = 0

\* start() failed with the bind error on a bridge with a button, and
\* close() was called and has ended.
C12_Witness ==
    /\ start.pc = "done" /\ start.out = "exc"
    /\ start.err = Err("bind", 0)
    /\ buttons # <<>>
    /\ close.pc = "done"

\* C11: close() called twice in succession, or on a bridge that was never
\* started, does not fail, and once the second call has ended no task, the
\* button handlers included, is running and the announcement is withdrawn.
C11_CloseTwiceIsHarmless ==
    close.pc = "done" =>
      /\ close.out = "ok"
      /\ close.calls = MaxCloses =>
            /\ ~mdns_registered
            /\ \A n \in TaskNames : ~Pending(task[n])
            /\ \A i \in DOMAIN btask : ~Pending(btask[i])

\* C13: the endpoint at position i of the list (counted from 0) has ID i,
\* endpoint 0 is the root endpoint with no device, and every step leaves
\* the endpoints there were in place: none is removed, moved or altered.
C13_EndpointIdsArePositions ==
    /\ [](/\ \A i \in DOMAIN endpoints : endpoints[i].endpoint_id = i - 1
          /\ endpoints # <<>>
          /\ endpoints[1] = MatterEndpoint(0, ROOT_NODE,
                                           <<DESCRIPTOR, IDENTIFY>>, None))
    /\ [][/\ Len(endpoints') >= Len(endpoints)
          /\ SubSeq(endpoints', 1, Len(endpoints)) = endpoints]_vars

\* A light and a button are registered next to the root endpoint, and the
\* bridge was started and closed.
C13_Witness ==
    /\ Len(endpoints) >= 3
    /\ lights # <<>> /\ buttons # <<>>
    /\ start.pc = "done" /\ close.pc = "done"

\* C14: no device is referenced by two endpoints, and none appears twice
\* in the list of lights or in the list of buttons.
C14_OneEndpointPerDevice ==
    /\ \A i, j \in DOMAIN endpoints :
          endpoints[i].device # None
            /\ endpoints[i].device = endpoints[j].device => i = j
    /\ \A i, j \in DOMAIN lights : lights[i] = lights[j] => i = j
    /\ \A i, j \in DOMAIN buttons : buttons[i] = buttons[j] => i = j

\* C15: a step that changes the registry registers a Light or a Button.
\* For a Light it appends one endpoint with the next ID, device type
\* Extended Color Light and clusters Descriptor, Identify, OnOff,
\* LevelControl, ColorControl, and appends the light to lights only; for a
\* Button it appends one endpoint with the next ID, device type Generic
\* Switch and clusters Descriptor, Identify, Switch, and appends the button
\* to buttons only.  No endpoint ever holds a device of another kind.
C15_RegisterByVariant ==
    /\ [](\A i \in DOMAIN endpoints :
            endpoints[i].device \in LightDevs \cup ButtonDevs \cup {None})
    /\ [][registryVars' # registryVars =>
            \E device \in LightDevs \cup ButtonDevs :
              IF device \in LightDevs
              THEN /\ endpoints' = Append(endpoints,
                          [endpoint_id |-> Len(endpoints),
                           device_type |-> EXTENDED_COLOR_LIGHT,
                           clusters |-> <<DESCRIPTOR, IDENTIFY, ON_OFF,
                                          LEVEL_CONTROL, COLOR_CONTROL>>,
                           device |-> device])
                   /\ lights' = Append(lights, device)
                   /\ buttons' = buttons
              ELSE /\ endpoints' = Append(endpoints,
                          [endpoint_id |-> Len(endpoints),
                           device_type |-> GENERIC_SWITCH,
                           clusters |-> <<DESCRIPTOR, IDENTIFY, SWITCH>>,
                           device |-> device])
                   /\ buttons' = Append(buttons, device)
                   /\ lights' = lights]_vars

\* A Light, then a Button were registered on a new bridge: the endpoints
\* are the root, the light's with ID 1 and the button's with ID 2.
C15_Witness ==
    /\ Len(endpoints) = 3
    /\ endpoints[1].endpoint_id = 0 /\ endpoints[1].device = None
    /\ endpoints[2].endpoint_id = 1 /\ endpoints[2].device = "light1"
    /\ endpoints[3].endpoint_id = 2 /\ endpoints[3].device = "button1"
    /\ lights = <<"light1">> /\ buttons = <<"button1">>

\* C16: a step that changes endpoints, lights or buttons changes nothing
\* else (it is a registration, not the handling of a datagram or of a
\* command, nor a step of start(), close() or a task) and only appends:
\* each list keeps what it held, so no existing endpoint is altered.
C16_RegistryOnlyAppended ==
    [][registryVars' # registryVars =>
         /\ UNCHANGED <<sessionVars, deviceVars, netVars, serviceVars,
                        taskVars, start, close, codec>>
         /\ Len(endpoints') = Len(endpoints) + 1
         /\ SubSeq(endpoints', 1, Len(endpoints)) = endpoints
         /\ Len(lights') >= Len(lights)
         /\ SubSeq(lights', 1, Len(lights)) = lights
         /\ Len(buttons') >= Len(buttons)
         /\ SubSeq(buttons', 1, Len(buttons)) = buttons]_vars

\* A light is registered, a datagram was handled and answered, the light
\* was toggled, and the bridge was started and closed.
C16_Witness ==
    /\ Len(endpoints) >= 2
    /\ received # <<>> /\ sent # <<>>
    /\ dispatched # NoCall /\ light_state["light1"].state = "ON"
    /\ start.pc = "done" /\ close.pc = "done"

(***************************************************************************)
(* The registry and the dispatcher on their own.                           *)
(***************************************************************************)
NextDevices == Register \/ Dispatch(ToggleCommands)

SpecDevices == Init /\ [][NextDevices]_vars

(***************************************************************************)
(* The dispatcher, one specification for each group of commands.           *)
(***************************************************************************)
\* A step is a call of handle_light_command.
Called == dispatched'.tick # dispatched.tick

\* Everything but the record of the call is as it was.
NothingDone ==
    UNCHANGED <<light_state, last_set, registryVars, sessionVars, netVars,
                serviceVars, taskVars, start, close, codec>>

\* A command of each cluster, on every endpoint ID, on a bridge of a light
\* and a button.
TargetCommands ==
    {c \in Commands :
       \/ c.cluster_id = ON_OFF /\ c.command_id \in {1, 2}
       \/ c.cluster_id = LEVEL_CONTROL /\ c.command_id = 0
                                       /\ c.args = LevelArgs(300, 25)
       \/ c.cluster_id = COLOR_CONTROL /\ c.command_id = 71
                                       /\ c.args = ColorArgs(127, 254)
       \/ c.cluster_id = IDENTIFY}

NextTargets ==
    RegisterOf({"light1", "button1", None}) \/ Dispatch(TargetCommands)

SpecTargets == Init /\ [][NextTargets]_vars

\* C17: a command for an endpoint ID that no endpoint has, for the root
\* endpoint 0 or for the endpoint of a Button requests nothing of any light:
\* no light's state changes, Light.set is not called, nothing is sent and
\* nothing else of the bridge changes.
C17_InvalidTargetIgnored ==
    [][/\ Called
       /\ LET id == dispatched'.endpoint_id IN
          \/ \A k \in DOMAIN endpoints : endpoints[k].endpoint_id # id
          \/ id = 0
          \/ \E k \in DOMAIN endpoints :
                /\ endpoints[k].endpoint_id = id
                /\ endpoints[k].device \in ButtonDevs
       => NothingDone]_vars

\* The latest command, a MoveToLevel, addressed the endpoint of a button
\* while a light is registered and on: the latest Light.set is still the
\* one that turned it on and its brightness is as before.
C17_Witness ==
    /\ dispatched.cluster_id = LEVEL_CONTROL
    /\ dispatched.command_id = 0
    /\ \E k \in DOMAIN endpoints :
          /\ endpoints[k].endpoint_id = dispatched.endpoint_id
          /\ endpoints[k].device \in ButtonDevs
    /\ lights # <<>>
    /\ light_state["light1"] = [LightOff EXCEPT !.state = "ON"]
    /\ last_set = SetState("light1", "ON")

\* The endpoint ID is that of an endpoint holding a Light.
IsLightEndpoint(id) ==
    \E k \in DOMAIN endpoints :
      endpoints[k].endpoint_id = id /\ endpoints[k].device \in LightDevs

\* The device of the endpoint with the ID.
DeviceAt(id) ==
    endpoints[CHOOSE k \in DOMAIN endpoints :
                endpoints[k].endpoint_id = id].device

\* The commands of the OnOff cluster on every endpoint ID and, to give a
\* light a brightness and a color, one MoveToLevel and one
\* MoveToHueAndSaturation on endpoint 1, on a bridge of two lights.
OnOffCommands ==
    {c \in Commands :
       \/ c.cluster_id = ON_OFF /\ c.command_id \in {0, 1, 2}
       \/ c.cluster_id = LEVEL_CONTROL /\ c.command_id = 0
                                       /\ c.args = LevelArgs(300, 25)
                                       /\ c.endpoint_id = 1
       \/ c.cluster_id = COLOR_CONTROL /\ c.command_id = 71
                                       /\ c.args = ColorArgs(127, 254)
                                       /\ c.endpoint_id = 1}

NextOnOff ==
    RegisterOf({"light1", "light2", None}) \/ Dispatch(OnOffCommands)

SpecOnOff == Init /\ [][NextOnOff]_vars

\* C18: an OnOff command on a light's endpoint sets that light's power with
\* a transition of zero: 0x00 to OFF, 0x01 to ON, 0x02 to the opposite of
\* what it is (so two Toggles in a row restore it).  The light's brightness
\* and color, every other light and the rest of the bridge are unchanged.
C18_OnOffSetsPower ==
    [][/\ Called
       /\ dispatched'.cluster_id = ON_OFF
       /\ dispatched'.command_id \in {0, 1, 2}
       /\ IsLightEndpoint(dispatched'.endpoint_id)
       => LET light == DeviceAt(dispatched'.endpoint_id)
              power == CASE dispatched'.command_id = 0 -> "OFF"
                         [] dispatched'.command_id = 1 -> "ON"
                         [] dispatched'.command_id = 2 ->
                              IF light_state[light].state = "ON"
                              THEN "OFF" ELSE "ON"
          IN  /\ light_state' = [light_state EXCEPT ![light].state = power]
              /\ last_set'.device = light
              /\ last_set'.key = "state"
              /\ last_set'.state = power
              /\ last_set'.transition = 0
              /\ UNCHANGED <<registryVars, sessionVars, netVars, serviceVars,
                             taskVars, start, close, codec>>]_vars

\* The latest command, a Toggle, turned off the first light, which has a
\* brightness and a color, while the second light is on.
C18_Witness ==
    /\ dispatched.cluster_id = ON_OFF /\ dispatched.command_id = 2
    /\ IsLightEndpoint(dispatched.endpoint_id)
    /\ DeviceAt(dispatched.endpoint_id) = "light1"
    /\ last_set = SetState("light1", "OFF")
    /\ light_state["light1"].state = "OFF"
    /\ light_state["light1"].brightness = 300
    /\ light_state["light1"].color # <<0, 0, 0>>
    /\ light_state["light2"].state = "ON"

\* The cluster/command pairs the dispatcher acts on.
IsHandled(c) ==
    \/ c.cluster_id = ON_OFF /\ c.command_id \in {0, 1, 2}
    \/ c.cluster_id = LEVEL_CONTROL /\ c.command_id = 0
    \/ c.cluster_id = COLOR_CONTROL /\ c.command_id = 71

\* Every other pair there is in Commands, with every dictionary of
\* arguments, on every endpoint ID and, to give a light a state, Toggle and
\* one MoveToLevel on endpoint 1, on a bridge of two lights.
IgnoredCommands ==
    {c \in Commands :
       \/ ~IsHandled(c)
       \/ /\ c.endpoint_id = 1
          /\ \/ c.cluster_id = ON_OFF /\ c.command_id = 2
             \/ c.cluster_id = LEVEL_CONTROL /\ c.command_id = 0
                                             /\ c.args = LevelArgs(300, 25)}

NextIgnored ==
    RegisterOf({"light1", "light2", None}) \/ Dispatch(IgnoredCommands)

SpecIgnored == Init /\ [][NextIgnored]_vars

\* C19: a command on a light's endpoint whose cluster/command pair is not
\* OnOff 0x00/0x01/0x02, LevelControl 0x00 or ColorControl 0x47 requests
\* nothing: Light.set is not called, no light's state changes and nothing
\* else of the bridge changes.
C19_OtherPairsAreNoOps ==
    [][/\ Called
       /\ IsLightEndpoint(dispatched'.endpoint_id)
       /\ ~IsHandled(dispatched')
       => NothingDone]_vars

\* The latest command, LevelControl 0x01 with a level of 300, addressed the
\* first light, which is on: its brightness is not 300 and the latest
\* Light.set is still the one that turned it on.
C19_Witness ==
    /\ dispatched.cluster_id = LEVEL_CONTROL /\ dispatched.command_id = 1
    /\ dispatched.args = LevelArgs(300, 25)
    /\ IsLightEndpoint(dispatched.endpoint_id)
    /\ DeviceAt(dispatched.endpoint_id) = "light1"
    /\ light_state["light1"] = [LightOff EXCEPT !.state = "ON"]
    /\ last_set = SetState("light1", "ON")

\* MoveToLevel with every dictionary of arguments on every endpoint ID and,
\* to give a light a power state and a color, Toggle and one
\* MoveToHueAndSaturation on endpoint 1, on a bridge of two lights.
LevelCommands ==
    {c \in Commands :
       \/ c.cluster_id = LEVEL_CONTROL /\ c.command_id = 0
       \/ /\ c.endpoint_id = 1
          /\ \/ c.cluster_id = ON_OFF /\ c.command_id = 2
             \/ c.cluster_id = COLOR_CONTROL /\ c.command_id = 71
                                             /\ c.args = ColorArgs(127, 254)}

NextLevel ==
    RegisterOf({"light1", "light2", None}) \/ Dispatch(LevelCommands)

SpecLevel == Init /\ [][NextLevel]_vars

\* C20: MoveToLevel (LevelControl 0x00) on a light's endpoint, with a level
\* among its arguments, sets that light's brightness to exactly that level,
\* above 254 too, with a transition of transition_time / 10 seconds (here
\* in milliseconds: transition / 1000 = transition_time / 10).  The light's
\* power and color, every other light and the rest of the bridge are
\* unchanged.
C20_MoveToLevelSetsBrightness ==
    [][/\ Called
       /\ dispatched'.cluster_id = LEVEL_CONTROL
       /\ dispatched'.command_id = 0
       /\ "level" \in dispatched'.args.has
       /\ IsLightEndpoint(dispatched'.endpoint_id)
       => LET light == DeviceAt(dispatched'.endpoint_id)
              args == dispatched'.args
          IN  /\ light_state' =
                   [light_state EXCEPT ![light].brightness = args.level]
              /\ last_set'.device = light
              /\ last_set'.key = "brightness"
              /\ last_set'.level = args.level
              /\ "transition_time" \in args.has =>
                    10 * last_set'.transition = 1000 * args.transition_time
              /\ UNCHANGED <<registryVars, sessionVars, netVars, serviceVars,
                             taskVars, start, close, codec>>]_vars

\* The latest command moved the first light, which is on and colored, to
\* level 300 in 25 tenths of a second: its brightness is 300, requested
\* with a transition of 2.5 s, and the second light's brightness is 0.
C20_Witness ==
    /\ dispatched.cluster_id = LEVEL_CONTROL /\ dispatched.command_id = 0
    /\ dispatched.args = LevelArgs(300, 25)
    /\ IsLightEndpoint(dispatched.endpoint_id)
    /\ DeviceAt(dispatched.endpoint_id) = "light1"
    /\ light_state["light1"].brightness = 300
    /\ light_state["light1"].state = "ON"
    /\ light_state["light1"].color # <<0, 0, 0>>
    /\ last_set.key = "brightness" /\ last_set.transition = 2500
    /\ lights = <<"light1", "light2">>
    /\ light_state["light2"].brightness = 0

\* MoveToHueAndSaturation on endpoint 1 with the hues at which the
\* conversion changes sector, a few between, and saturations from none to
\* full, on a bridge of one light.
Hues == {0, 1, 20, 42, 43, 64, 84, 85, 100, 127, 128, 150, 169, 170, 190,
         211, 212, 230, 253, 254}
Saturations == {0, 1, 100, 127, 253, 254}

ColorCommands ==
    {[endpoint_id |-> 1, cluster_id |-> COLOR_CONTROL, command_id |-> 71,
      args |-> ColorArgs(hue, saturation)] :
        hue \in Hues, saturation \in Saturations}

NextColor == RegisterOf({"light1", None}) \/ Dispatch(ColorCommands)

SpecColor == Init /\ [][NextColor]_vars

\* The color of hue h = 360 * hue / 254 degrees, saturation
\* s = saturation / 254 and value 1, by chroma: with c = s, h' = h / 60,
\* x = c * (1 - |h' mod 2 - 1|) and m = 1 - c, the channels are c + m, x + m
\* and m in the order of the sector of h', each times 255 and truncated.
\* All numerators are over 254 * 127.
HsvToRgbByChroma(hue, saturation) ==
    LET D == 254 * 127
        sector == ((3 * hue) \div 127) % 6
        r == (3 * hue) % 254
        dist == IF r >= 127 THEN r - 127 ELSE 127 - r
        c == saturation * 127
        x == saturation * (127 - dist)
        m == (254 - saturation) * 127
        C == (255 * (c + m)) \div D
        X == (255 * (x + m)) \div D
        M == (255 * m) \div D
    IN  CASE sector = 0 -> <<C, X, M>>
          [] sector = 1 -> <<X, C, M>>
          [] sector = 2 -> <<M, C, X>>
          [] sector = 3 -> <<M, X, C>>
          [] sector = 4 -> <<X, M, C>>
          [] OTHER      -> <<C, M, X>>

\* C21: MoveToHueAndSaturation (ColorControl 0x47) on a light's endpoint,
\* with hue and saturation in 0..254, sets that light's color to the
\* HSV-to-RGB conversion of hue / 254 * 360 degrees, saturation / 254 * 100
\* percent and value 100 percent, each channel truncated to an integer in
\* 0..255: hue 0 with saturation 254 gives (255, 0, 0), hue 127 with
\* saturation 254 gives (0, 255, 255).  Nothing else of the light changes.
C21_MoveToHueAndSaturationSetsColor ==
    [][/\ Called
       /\ dispatched'.cluster_id = COLOR_CONTROL
       /\ dispatched'.command_id = 71
       /\ {"hue", "saturation"} \subseteq dispatched'.args.has
       /\ dispatched'.args.hue \in 0..254
       /\ dispatched'.args.saturation \in 0..254
       /\ IsLightEndpoint(dispatched'.endpoint_id)
       => LET light == DeviceAt(dispatched'.endpoint_id)
              hue == dispatched'.args.hue
              saturation == dispatched'.args.saturation
              rgb == light_state'[light].color
          IN  /\ rgb = HsvToRgbByChroma(hue, saturation)
              /\ \A ch \in 1..3 : rgb[ch] \in 0..255
              /\ hue = 0 /\ saturation = 254 => rgb = <<255, 0, 0>>
              /\ hue = 127 /\ saturation = 254 => rgb = <<0, 255, 255>>
              /\ light_state' = [light_state EXCEPT ![light].color = rgb]
              /\ last_set'.device = light
              /\ last_set'.key = "color"
              /\ last_set'.color = rgb
              /\ last_set'.transition = 0]_vars

\* The latest command moved the registered light to hue 127 at full
\* saturation and the light is cyan.
C21_Witness ==
    /\ dispatched.cluster_id = COLOR_CONTROL /\ dispatched.command_id = 71
    /\ dispatched.args = ColorArgs(127, 254)
    /\ IsLightEndpoint(dispatched.endpoint_id)
    /\ light_state["light1"].color = <<0, 255, 255>>
    /\ last_set.key = "color"


(***************************************************************************)
(* The pairing information of a bridge constructed with given arguments    *)
(* (SpecPairing): _display_pairing_info is called on the bridge as it is   *)
(* constructed, as src/test_qr.py does.                                    *)
(***************************************************************************)
PairingVendors == {0, MATTER_VENDOR_ID, 65535}
PairingProducts == {0, MATTER_PRODUCT_ID, 65535}
PairingDiscriminators == {0, MATTER_DISCRIMINATOR, 4095, 4096}
\* 0, 1, 20202021, 2^27 - 1, 2^27, 10^11 - 1, 10^11 and 123456789012
PairingPasscodes ==
    {[lo |-> 0, hi |-> 0], [lo |-> 1, hi |-> 0], DefaultPasscode,
     [lo |-> 65535, hi |-> 2047], [lo |-> 0, hi |-> 2048],
     [lo |-> 59391, hi |-> 1525878], [lo |-> 59392, hi |-> 1525878],
     [lo |-> 6676, hi |-> 1883801]}

InitPairing ==
    /\ InitBridge
    /\ codec = NoCodec
    /\ \E vid \in PairingVendors, pid \in PairingProducts,
          disc \in PairingDiscriminators, code \in PairingPasscodes :
            ConfigIs(vid, pid, disc, code)

DisplayPairingInfo ==
    /\ pairing_shown < MaxDisplays
    /\ _display_pairing_info
    /\ UNCHANGED <<dataVars, codec, configVars, netVars, taskVars, start,
                   close, _udp_transport, _udp_protocol, zeroconf,
                   service_info, mdns_registered>>

NextPairing == DisplayPairingInfo

SpecPairing == InitPairing /\ [][NextPairing]_vars

\* The value of a character of the alphabet 0-9 A-Z - .
Base38Digit(ch) == CHOOSE k \in 0..37 : base38_chars[k + 1] = ch

\* limbs * 38 + carry for a number kept as 12-bit limbs, lowest first
RECURSIVE TimesBase(_, _, _, _)
TimesBase(limbs, i, carry, acc) ==
    IF i > Len(limbs) THEN [limbs |-> acc, carry |-> carry]
    ELSE LET t == limbs[i] * 38 + carry
         IN  TimesBase(limbs, i + 1, t \div 4096, Append(acc, t % 4096))

\* The base-38 value of chars[i..] after the value `limbs` of chars[..i-1];
\* over is TRUE when the value does not fit 84 bits.
RECURSIVE Base38Value(_, _, _, _)
Base38Value(chars, i, limbs, over) ==
    IF i > Len(chars) THEN [limbs |-> limbs, over |-> over]
    ELSE LET r == TimesBase(limbs, 1, Base38Digit(chars[i]), <<>>)
         IN  Base38Value(chars, i + 1, r.limbs, over \/ r.carry # 0)

\* Bit k (from 0) of a number kept as 12-bit limbs
LimbBit(limbs, k) == (limbs[(k \div 12) + 1] \div 2^(k % 12)) % 2

\* The field of `width` bits at `shift`
RECURSIVE Field(_, _, _)
Field(limbs, shift, width) ==
    IF width = 0 THEN 0
    ELSE Field(limbs, shift, width - 1)
           + LimbBit(limbs, shift + width - 1) * 2^(width - 1)

QrInputsInRange ==
    /\ vendor_id \in 0..65535
    /\ product_id \in 0..65535
    /\ discriminator \in 0..4095
    /\ passcode.hi < 2048

QrDecodes(payload) ==
    /\ Len(payload) >= 23
    /\ SubSeq(payload, 1, 3) = <<"M", "T", ":">>
    /\ \A i \in 4..Len(payload) :
         \E k \in 1..38 : base38_chars[k] = payload[i]
    /\ LET v == Base38Value(SubSeq(payload, 4, Len(payload)), 1,
                            [i \in 1..7 |-> 0], FALSE)
       IN  /\ ~v.over
           /\ Field(v.limbs, 81, 3) = 0
           /\ Field(v.limbs, 65, 16) = vendor_id
           /\ Field(v.limbs, 49, 16) = product_id
           /\ Field(v.limbs, 47, 2) = 0
           /\ Field(v.limbs, 39, 8) = 4
           /\ Field(v.limbs, 27, 12) = discriminator
           /\ Field(v.limbs, 0, 27) = passcode.lo + 65536 * passcode.hi

\* C22: for a vendor and a product id of 16 bits, a discriminator of 12
\* bits and a passcode of 27 bits, the QR payload printed is "MT:" and at
\* least 20 characters of the alphabet 0-9 A-Z - . whose base-38 value is
\* the 84-bit integer holding version 0, the vendor id, the product id,
\* custom flow 0, discovery capabilities 4, the discriminator and the
\* passcode in fields of 3, 16, 16, 2, 8, 12 and 27 bits from the top, so
\* that decoding recovers every field; and printing again for the same
\* inputs gives the same payload.
C22_QrPayloadEncodesTheFields ==
    /\ [](printed # NoPrint /\ QrInputsInRange => QrDecodes(printed.qr_payload))
    /\ [][printed # NoPrint => printed'.qr_payload = printed.qr_payload]_vars

\* The bridge of src/test_qr.py has printed its payload twice.
C22_Witness ==
    /\ DefaultConfig
    /\ pairing_shown = 2
    /\ printed.qr_payload = <<"M", "T", ":", "0", "0", "0", "0", "4", "W",
                              "O", "Z", "4", "S", "6", "2", "X", "H", "T",
                              "U", "V", "T", "9", "J">>


\* passcode < 10^11 = 1525878 * 65536 + 59392
PasscodeHasElevenDigits ==
    \/ passcode.hi < 1525878
    \/ passcode.hi = 1525878 /\ passcode.lo < 59392

DecimalDigit(ch) == CHOOSE k \in 0..9 : DecimalChars[k + 1] = ch

\* The number [lo, hi] the decimal digits digits[i..] stand for after the
\* number n of digits[..i-1]
RECURSIVE DecimalValue(_, _, _)
DecimalValue(digits, i, n) ==
    IF i > Len(digits) THEN n
    ELSE LET t == 10 * n.lo + DecimalDigit(digits[i])
         IN  DecimalValue(digits, i + 1,
                          [lo |-> t % 65536, hi |-> 10 * n.hi + (t \div 65536)])

\* code is 11 decimal digits grouped 4-3-4 by hyphens, and the digits are
\* the passcode
IsPaddedPasscode(code) ==
    /\ Len(code) = 13
    /\ code[5] = "-" /\ code[9] = "-"
    /\ \A i \in (1..13) \ {5, 9} : \E k \in 1..10 : DecimalChars[k] = code[i]
    /\ LET NotHyphen(ch) == ch # "-"
       IN  DecimalValue(SelectSeq(code, NotHyphen), 1, [lo |-> 0, hi |-> 0])
             = passcode

\* C23 as stated: for a passcode below 10^11 the manual code printed is the
\* passcode zero-padded to 11 decimal digits and grouped 4-3-4 by hyphens,
\* 13 characters from which the passcode is recovered by removing the
\* hyphens; passcode 20202021 gives "0020-202-0021".
C23_AsStated ==
    printed # NoPrint /\ PasscodeHasElevenDigits =>
        /\ IsPaddedPasscode(printed.manual_code)
        /\ passcode = DefaultPasscode =>
             printed.manual_code = <<"0", "0", "2", "0", "-", "2", "0", "2",
                                     "-", "0", "0", "2", "1">>

\* C23 amended: for a passcode below 10^11 the manual code printed is the
\* passcode zero-padded to 11 decimal digits and grouped 4-3-4 by hyphens,
\* 13 characters from which the passcode is recovered by removing the
\* hyphens; passcode 20202021 gives "0002-020-2021".
C23_ManualCodeIsPaddedPasscode ==
    printed # NoPrint /\ PasscodeHasElevenDigits =>
        /\ IsPaddedPasscode(printed.manual_code)
        /\ passcode = DefaultPasscode =>
             printed.manual_code = <<"0", "0", "0", "2", "-", "0", "2", "0",
                                     "-", "2", "0", "2", "1">>

\* The manual code of passcode 20202021 is printed.
C23_Witness ==
    /\ passcode = DefaultPasscode
    /\ Len(printed.manual_code) = 13

\* C24: for a passcode of 10^11 or more, generating the manual code fails:
\* no manual code is printed.
C24_LongPasscodeRejected ==
    ~PasscodeHasElevenDigits => printed.manual_code = <<>>


(***************************************************************************)
(* What start() leaves running (Spec).                                     *)
(***************************************************************************)
\* start() ends because aio.wait returned.
StartEndsByCompletion ==
    start.pc = "wait" /\ start'.pc = "done" /\ start'.out # "cancelled"

\* C25: when start() ends because one activity completed, start() does not
\* cancel the other two: they are running, with no cancellation requested,
\* when start() has returned or raised, they stay so as long as close() is
\* not called, and an activity that never completes by itself is only ever
\* stopped by the cancellation of close().
C25_StartLeavesTheOthersRunning ==
    /\ [][StartEndsByCompletion =>
            /\ task' = task
            /\ \E n \in TaskNames :
                 /\ Done(task[n])
                 /\ \A o \in TaskNames \ {n} :
                      Pending(task'[o]) /\ ~task'[o].cancel]_vars
    /\ [](\A n \in Loops :
            /\ start.pc = "done" /\ task[n].st # "none" /\ close.calls = 0
                 => Pending(task[n]) /\ ~task[n].cancel
            /\ Done(task[n]) => task[n].st = "cancelled" /\ close.calls > 0)

\* start() has raised what the button relay failed with, close() was not
\* called, and the light monitor and the commissioning loop are running.
C25_Witness ==
    /\ start.pc = "done" /\ start.out = "exc"
    /\ task["buttons"].st = "exc"
    /\ close.calls = 0
    /\ \A n \in Loops : Pending(task[n]) /\ ~task[n].cancel


(***************************************************************************)
(* The button relay (Spec).                                                *)
(***************************************************************************)
\* The relay task makes its first step.
RelayCreatesHandlers == relay.pc = "init" /\ relay'.pc \in {"wait", "forever"}

\* The relay ends by itself only when a handler has completed.
RelayEndsWithAHandler ==
    task["buttons"].st \in {"ok", "exc"} =>
        \E i \in DOMAIN btask : btask[i].st \in {"ok", "exc"}

\* Every handler has terminated when the relay's task is done.
RelayLeavesNoHandler ==
    Done(task["buttons"]) => \A i \in DOMAIN btask : Done(btask[i])

\* Without a button the relay ends only cancelled, and a start() that got
\* as far as creating the tasks ends only cancelled.
RelayWithoutButtonsWaits ==
    btask = <<>> =>
        /\ Done(task["buttons"]) => task["buttons"].st = "cancelled"
        /\ start.pc = "done" /\ task["buttons"].st # "none"
             => start.out = "cancelled"

\* A relay that is cancelled ends cancelled: the step that ends a relay
\* whose cancellation is requested, or delivered and being handled, ends it
\* as cancelled.
RelayCancellationPropagates ==
    /\ Pending(task["buttons"]) /\ Done(task'["buttons"])
    /\ task["buttons"].cancel \/ relay.pc = "cancelling"
    => task'["buttons"].st = "cancelled"

\* C26: the relay runs one handler per registered button and completes only
\* when one of them completes; every other handler is then cancelled and has
\* terminated before the relay's outcome is known; a relay that is cancelled
\* cancels and awaits every handler and then ends cancelled; with no button
\* it never completes on its own, and start() does not return unless
\* cancelled.
C26_RelaySupervisesEveryHandler ==
    /\ [][RelayCreatesHandlers =>
            btask' = [i \in 1..Len(buttons) |-> NewTask]]_vars
    /\ [](RelayEndsWithAHandler /\ RelayWithoutButtonsWaits)
    /\ [][RelayCancellationPropagates]_vars
    /\ []RelayLeavesNoHandler

====
